---- MODULE Spec2Model ----
(***************************************************************************)
(* Health reporting path of the HITL platform deployment bundle:           *)
(*   - scripts/generate-health.sh  (the per-node health reporter),         *)
(*   - sync-from-s3.sh             (the cron job that writes .last-sync),  *)
(*   - scripts/install-nginx.sh    (location / and its identity header),   *)
(*   - the OpenResty locations that expose /health and /health-detailed,   *)
(*   - demo-app App.tsx            (the polling status dashboard),         *)
(*   - lambda-backend/src/index.ts (the API handler behind the ALB).       *)
(* Strings that the code inspects (status words, the plaintext /health     *)
(* body) are sequences of one-character strings so that toLowerCase and    *)
(* includes are computed; strings the code only copies are TLA+ strings.   *)
(***************************************************************************)
EXTENDS Integers, Sequences, FiniteSets, Bags, TLC

VARIABLES
    now,            \* wall clock, epoch seconds
    marker,         \* content of /var/www/hitl/.last-sync
    file,           \* content of /var/www/hitl/health-detailed
    rpc,            \* position of the running generate-health.sh
    chk,            \* what the sub-checks of the current/last run returned
    rmarker,        \* what the current/last run read from the marker file
    env,            \* shell variables of the current/last run
    rlast,          \* how the last reporter run ended
    rtime,          \* the clock when the current/last run sampled
    runs,           \* reporter runs started
    faults,         \* sub-check failures the environment may still inject
    slog,           \* the sync job's record: how its last run ended and when
    root,           \* location /: the handling of the current/last request
    mounted,        \* App: "initial" until useEffect ran, then "mounted"
    healthData,     \* App state: useState<HealthData | null>
    loading,        \* App state: useState(true)
    refreshCount,   \* App state: useState(0)
    lastRefresh,    \* App state: useState(new Date())
    inflight,       \* fetchHealthData calls that have not returned yet
    started,        \* fetchHealthData calls started so far
    lastResolved,   \* the fetchHealthData call that returned most recently
    interval,       \* the setInterval timer of useEffect: period and state
    metrics,        \* fetch('/api/metrics') chains pending, by stage
    lambdaData,     \* App state: useState<any>(null)
    lastMetrics,    \* how the metrics chain that ended most recently ended
    capture,        \* position of the captureEC2Data call and its request
    ec2Data,        \* App state: useState<EC2Data | null>(null)
    statusArg,      \* argument of the last getStatusColor evaluation
    statusOut,      \* its result
    syncArg,        \* argument of the last sync indicator evaluation
    syncOut,        \* its result: colour and text
    lambdaReq,      \* the ALB event of the last Lambda invocation
    lambdaOut,      \* its ALBResult
    apps,           \* the sampleApplications array of the Lambda container
    decisionLog     \* the last "Decision received" line the handler logged

vars == <<now, marker, file, rpc, chk, rmarker, env, rlast, rtime, runs, faults,
          slog, root,
          mounted, healthData, loading, refreshCount, lastRefresh,
          inflight, started, lastResolved,
          interval, metrics, lambdaData, lastMetrics, capture, ec2Data,
          statusArg, statusOut, syncArg, syncOut, lambdaReq, lambdaOut,
          apps, decisionLog>>

jobVars == <<marker, file, rpc, chk, rmarker, env, rlast, rtime, runs, faults,
             slog>>
reporterVars == <<jobVars, root>>
metricsVars == <<metrics, lambdaData, lastMetrics>>
captureVars == <<capture, ec2Data>>
healthVars == <<mounted, healthData, loading, refreshCount, lastRefresh,
                inflight, started, lastResolved, interval, metricsVars>>
appVars == <<healthVars, captureVars>>
containerVars == <<apps, decisionLog>>
probeVars == <<statusArg, statusOut, syncArg, syncOut, lambdaReq, lambdaOut,
               containerVars>>

(***************************************************************************)
(* Bounds of the model.                                                    *)
(***************************************************************************)
Epoch0 == 1000
TimeStep == 300
MaxTime == 1300
MaxRuns == 1
MaxFaults == 1
MaxFetches == 3
MaxRefresh == 2
MaxAge == 7205
MaxEarly == 5

(***************************************************************************)
(* Character strings.                                                      *)
(***************************************************************************)
UpperChars == <<"A","B","C","D","E","F","G","H","I","J","K","L","M",
                "N","O","P","Q","R","S","T","U","V","W","X","Y","Z">>
LowerChars == <<"a","b","c","d","e","f","g","h","i","j","k","l","m",
                "n","o","p","q","r","s","t","u","v","w","x","y","z">>

LowerOf(c) ==
    IF \E i \in 1..26 : UpperChars[i] = c
    THEN LowerChars[CHOOSE i \in 1..26 : UpperChars[i] = c]
    ELSE c

UpperOf(c) ==
    IF \E i \in 1..26 : LowerChars[i] = c
    THEN UpperChars[CHOOSE i \in 1..26 : LowerChars[i] = c]
    ELSE c

\* String.prototype.toLowerCase
toLowerCase(s) == [i \in 1..Len(s) |-> LowerOf(s[i])]

\* String.prototype.includes
includes(text, needle) ==
    \E i \in 0..(Len(text) - Len(needle)) :
        \A j \in 1..Len(needle) : text[i + j] = needle[j]

S_healthy == <<"h","e","a","l","t","h","y">>
S_degraded == <<"d","e","g","r","a","d","e","d">>
S_unhealthy == <<"u","n","h","e","a","l","t","h","y">>
S_unknown == <<"u","n","k","n","o","w","n">>
S_error == <<"e","r","r","o","r">>

\* every casing of s
RECURSIVE Casings(_)
Casings(s) ==
    IF s = <<>> THEN {<<>>}
    ELSE {<<c>> \o rest : c \in {s[1], UpperOf(s[1])}, rest \in Casings(Tail(s))}

(***************************************************************************)
(* JavaScript values: number | null | undefined.                           *)
(***************************************************************************)
Null == [kind |-> "null", n |-> 0]
Undefined == [kind |-> "undefined", n |-> 0]
Num(n) == [kind |-> "num", n |-> n]

Green == "#28a745"
Yellow == "#ffc107"
Red == "#dc3545"
Gray == "#6c757d"

FreshLimit == 300
StaleLimit == 600
\* setInterval(fetchHealthData, 30000)
PollInterval == 30000

\* getStatusColor without the toLowerCase call
getStatusColorCaseSensitive(status) ==
    CASE status = S_healthy -> Green
      [] status = S_degraded -> Yellow
      [] status = S_unhealthy -> Red
      [] OTHER -> Gray

\* App.tsx getStatusColor
getStatusColor(status) ==
    LET s == toLowerCase(status) IN
    CASE s = S_healthy -> Green
      [] s = S_degraded -> Yellow
      [] s = S_unhealthy -> Red
      [] OTHER -> Gray

\* formatSyncTime with <= in place of < at the first threshold
formatSyncTimeInclusive(seconds) ==
    IF seconds = Null \/ seconds = Undefined THEN "Unknown"
    ELSE IF seconds.n <= 60 THEN ToString(seconds.n) \o " seconds ago"
    ELSE IF seconds.n < 120 THEN "1 minute ago"
    ELSE IF seconds.n < 3600 THEN ToString(seconds.n \div 60) \o " minutes ago"
    ELSE IF seconds.n < 7200 THEN "1 hour ago"
    ELSE ToString(seconds.n \div 3600) \o " hours ago"

\* App.tsx formatSyncTime
formatSyncTime(seconds) ==
    IF seconds = Null \/ seconds = Undefined THEN "Unknown"
    ELSE IF seconds.n < 60 THEN ToString(seconds.n) \o " seconds ago"
    ELSE IF seconds.n < 120 THEN "1 minute ago"
    ELSE IF seconds.n < 3600 THEN ToString(seconds.n \div 60) \o " minutes ago"
    ELSE IF seconds.n < 7200 THEN "1 hour ago"
    ELSE ToString(seconds.n \div 3600) \o " hours ago"

\* getSyncStatusColor with <= in place of < at the first threshold
getSyncStatusColorInclusive(seconds) ==
    IF seconds = Null \/ seconds = Undefined THEN Gray
    ELSE IF seconds.n <= FreshLimit THEN Green
    ELSE IF seconds.n < StaleLimit THEN Yellow
    ELSE Red

\* App.tsx getSyncStatusColor
getSyncStatusColor(seconds) ==
    IF seconds = Null \/ seconds = Undefined THEN Gray
    ELSE IF seconds.n < FreshLimit THEN Green
    ELSE IF seconds.n < StaleLimit THEN Yellow
    ELSE Red

(***************************************************************************)
(* Shell values of generate-health.sh.  A shell variable holds text; the   *)
(* kind records what the text is, n its numeric value where it has one.    *)
(***************************************************************************)
ShEmpty == [kind |-> "empty", n |-> 0, s |-> ""]
ShNum(n) == [kind |-> "num", n |-> n, s |-> ""]
ShStr(s) == [kind |-> "str", n |-> 0, s |-> s]
\* output of  date -u +"%Y-%m-%dT%H:%M:%SZ"  for epoch second t
ShIso(t) == [kind |-> "iso", n |-> t, s |-> ""]
\* a one-decimal number printed by awk's "%.1f": integer part n, text s
ShDec(n, s) == [kind |-> "dec", n |-> n, s |-> s]
\* the marker file does not exist
Absent == [kind |-> "absent", n |-> 0, s |-> ""]

\* the text a shell value expands to
Text(v) ==
    CASE v.kind = "empty" -> ""
      [] v.kind = "num" -> ToString(v.n)
      [] v.kind = "iso" -> ToString(v.n) \o "Z"
      [] OTHER -> v.s

\* ${X:-d}
Default(v, d) == IF v.kind = "empty" THEN d ELSE v

\* date -d "$X" +%s 2>/dev/null || echo "0"
DateParse(v) == IF v.kind = "iso" THEN ShNum(v.n) ELSE ShNum(0)

\* $((a - b)): an unset or empty variable evaluates to 0
Arith(v) == IF v.kind = "num" THEN v.n ELSE 0

(***************************************************************************)
(* What the sub-checks of one run return.  curl: "ok" (exit 0, a value),   *)
(* "empty" (exit 0, no output), "fail" (non-zero exit, service             *)
(* unreachable).                                                           *)
(***************************************************************************)
ServerPid == 4242
AllOk ==
    [token |-> "ok", id |-> "ok", az |-> "ok", type |-> "ok", region |-> "ok",
     ip |-> "ok", active |-> "ok", pid |-> "ok", version |-> "ok", ps |-> "ok",
     load |-> "ok", mem |-> "ok", disk |-> "ok", uptime |-> "ok"]

MetadataChecks == {"id", "az", "type", "region", "ip"}

FaultPoints ==
    {<<f, o>> : f \in {"token"} \cup MetadataChecks, o \in {"empty", "fail"}}
    \cup {<<"active", "inactive">>, <<"pid", "empty">>, <<"pid", "zero">>,
          <<"version", "fail">>, <<"ps", "gone">>, <<"ps", "datefail">>,
          <<"load", "empty">>, <<"mem", "empty">>, <<"disk", "empty">>,
          <<"uptime", "empty">>}

FaultCount(c) == Cardinality({f \in DOMAIN c : c[f] # "ok"})

\* the outcomes with at most k sub-checks not returning their normal value
RECURSIVE Outcomes(_, _)
Outcomes(c, k) ==
    IF k = 0 THEN {c}
    ELSE {c} \cup UNION {Outcomes([c EXCEPT ![p[1]] = p[2]], k - 1) :
                            p \in {q \in FaultPoints : c[q[1]] = "ok"}}

Curl(outcome, value) == IF outcome = "ok" THEN ShStr(value) ELSE ShEmpty

EnvInit ==
    [INSTANCE_ID |-> ShEmpty, AZ |-> ShEmpty, INSTANCE_TYPE |-> ShEmpty,
     REGION |-> ShEmpty, PRIVATE_IP |-> ShEmpty,
     OPENRESTY_STATUS |-> ShEmpty, OPENRESTY_RESPONDING |-> ShEmpty,
     OPENRESTY_PID |-> ShEmpty, OPENRESTY_UPTIME |-> ShEmpty,
     OPENRESTY_VERSION |-> ShEmpty,
     S3_SYNC_STATUS |-> ShEmpty, LAST_SYNC |-> ShEmpty,
     LAST_SYNC_SECONDS_AGO |-> ShEmpty,
     LOAD_AVG |-> ShEmpty, MEMORY_USED |-> ShEmpty, DISK_USED |-> ShEmpty,
     UPTIME_SECONDS |-> ShEmpty]

\* generate-health.sh lines 7-14 under set -e: a command substitution whose
\* command exits non-zero ends the script
MetadataAborts(c) ==
    c.token = "fail" \/ \E f \in MetadataChecks : c[f] = "fail"

\* the check with OPENRESTY_RESPONDING initialised to "true"
OpenRestyCheckRespondingByDefault(c, t) ==
    [OPENRESTY_STATUS |->
         IF c.active = "ok" THEN ShStr("active") ELSE ShStr("inactive"),
     OPENRESTY_RESPONDING |-> ShStr("true"),
     OPENRESTY_PID |-> ShEmpty,
     OPENRESTY_VERSION |-> ShEmpty,
     OPENRESTY_UPTIME |-> ShEmpty]

\* the metadata items of lines 10-14, in the order they are requested
MetadataItems ==
    <<[check |-> "id", item |-> "instance-id"],
      [check |-> "az", item |-> "placement/availability-zone"],
      [check |-> "type", item |-> "instance-type"],
      [check |-> "region", item |-> "placement/region"],
      [check |-> "ip", item |-> "local-ipv4"]>>

\* generate-health.sh lines 7-14: the requests a run sends to the metadata
\* service when its curl commands end as c says.  A curl that exits non-zero
\* ends the script; one that exits 0 with no output leaves its variable
\* empty, and the next commands run with it
ReporterRequests(c) ==
    LET token == IF c.token = "ok" THEN "AQAEAJtoken" ELSE ""
        \* the metadata requests up to the first one whose curl fails
        sent == IF \E k \in 1..5 : c[MetadataItems[k].check] = "fail"
                THEN CHOOSE k \in 1..5 :
                         /\ c[MetadataItems[k].check] = "fail"
                         /\ \A j \in 1..(k - 1) :
                                c[MetadataItems[j].check] # "fail"
                ELSE 5
    IN  IF c.token = "fail"
        THEN <<[method |-> "PUT", url |-> "/latest/api/token", token |-> ""]>>
        ELSE <<[method |-> "PUT", url |-> "/latest/api/token", token |-> ""]>>
             \o [k \in 1..sent |->
                    [method |-> "GET",
                     url |-> "/latest/meta-data/" \o MetadataItems[k].item,
                     token |-> token]]

\* generate-health.sh lines 16-37
OpenRestyCheck(c, t) ==
    LET pid == CASE c.pid = "ok" -> ShNum(ServerPid)
                 [] c.pid = "zero" -> ShNum(0)
                 [] OTHER -> ShEmpty
        start == CASE c.ps = "ok" -> ShNum(Epoch0)
                   [] c.ps = "datefail" -> ShNum(0)
                   [] OTHER -> ShEmpty
    IN  IF c.active = "ok"
        THEN [OPENRESTY_STATUS |-> ShStr("active"),
              OPENRESTY_RESPONDING |-> ShStr("true"),
              OPENRESTY_PID |-> pid,
              OPENRESTY_VERSION |->
                  IF c.version = "ok" THEN ShStr("1.21.4") ELSE ShStr("unknown"),
              OPENRESTY_UPTIME |->
                  IF pid.kind # "empty" /\ pid # ShNum(0) /\ start # ShNum(0)
                  THEN ShNum(t - Arith(start))
                  ELSE ShEmpty]
        ELSE [OPENRESTY_STATUS |-> ShStr("inactive"),
              OPENRESTY_RESPONDING |-> ShStr("false"),
              OPENRESTY_PID |-> ShEmpty,
              OPENRESTY_VERSION |-> ShEmpty,
              OPENRESTY_UPTIME |-> ShEmpty]

\* the sync check with LAST_SYNC_SECONDS_AGO initialised to 0 instead of ""
SyncCheckZeroAge(m, t) ==
    LET last == IF m.kind = "absent" THEN ShEmpty ELSE m
        epoch == DateParse(last)
    IN  [S3_SYNC_STATUS |->
             IF m.kind # "absent" /\ last.kind # "empty"
             THEN ShStr("active") ELSE ShStr("unknown"),
         LAST_SYNC |-> last,
         LAST_SYNC_SECONDS_AGO |->
             IF m.kind # "absent" /\ last.kind # "empty" /\ epoch # ShNum(0)
             THEN ShNum(t - Arith(epoch))
             ELSE ShNum(0)]

\* generate-health.sh lines 39-56
SyncCheck(m, t) ==
    LET last == IF m.kind = "absent" THEN ShEmpty ELSE m
        epoch == DateParse(last)
    IN  [S3_SYNC_STATUS |->
             IF m.kind # "absent" /\ last.kind # "empty"
             THEN ShStr("active") ELSE ShStr("unknown"),
         LAST_SYNC |-> last,
         LAST_SYNC_SECONDS_AGO |->
             IF m.kind # "absent" /\ last.kind # "empty" /\ epoch # ShNum(0)
             THEN ShNum(t - Arith(epoch))
             ELSE ShEmpty]

\* generate-health.sh lines 58-62
SystemMetrics(c, t) ==
    [LOAD_AVG |-> IF c.load = "ok" THEN ShStr("0.10, 0.20, 0.30") ELSE ShEmpty,
     MEMORY_USED |-> IF c.mem = "ok" THEN ShDec(42, "42.3") ELSE ShEmpty,
     DISK_USED |-> IF c.disk = "ok" THEN ShStr("37%") ELSE ShEmpty,
     UPTIME_SECONDS |-> IF c.uptime = "ok" THEN ShNum(t - Epoch0) ELSE ShEmpty]

\* generate-health.sh lines 7-62: the shell variables after sampling
Sample(c, m, t) ==
    LET o == OpenRestyCheck(c, t)
        y == SyncCheck(m, t)
        x == SystemMetrics(c, t)
    IN  [INSTANCE_ID |-> Curl(c.id, "i-0abc"),
         AZ |-> Curl(c.az, "us-east-1a"),
         INSTANCE_TYPE |-> Curl(c.type, "t3.micro"),
         REGION |-> Curl(c.region, "us-east-1"),
         PRIVATE_IP |-> Curl(c.ip, "10.0.1.10"),
         OPENRESTY_STATUS |-> o.OPENRESTY_STATUS,
         OPENRESTY_RESPONDING |-> o.OPENRESTY_RESPONDING,
         OPENRESTY_PID |-> o.OPENRESTY_PID,
         OPENRESTY_UPTIME |-> o.OPENRESTY_UPTIME,
         OPENRESTY_VERSION |-> o.OPENRESTY_VERSION,
         S3_SYNC_STATUS |-> y.S3_SYNC_STATUS,
         LAST_SYNC |-> y.LAST_SYNC,
         LAST_SYNC_SECONDS_AGO |-> y.LAST_SYNC_SECONDS_AGO,
         LOAD_AVG |-> x.LOAD_AVG,
         MEMORY_USED |-> x.MEMORY_USED,
         DISK_USED |-> x.DISK_USED,
         UPTIME_SECONDS |-> x.UPTIME_SECONDS]

(***************************************************************************)
(* The snapshot document.  Fields the heredoc puts between double quotes   *)
(* hold the expanded text; fields it leaves bare hold the shell value, so  *)
(* that a reader can tell whether the bare text is a JSON literal.         *)
(***************************************************************************)
\* the top-level status following the sync check
TopStatusBySync(e) ==
    IF e.S3_SYNC_STATUS = ShStr("active") THEN S_healthy ELSE S_unknown

\* generate-health.sh line 67: the literal "healthy"
TopStatus(e) == S_healthy

\* generate-health.sh lines 65-102
Render(e, t) ==
    [status |-> TopStatus(e),
     timestamp |-> Text(ShIso(t)),
     instance |->
        [id |-> Text(Default(e.INSTANCE_ID, ShStr("unknown"))),
         type |-> Text(Default(e.INSTANCE_TYPE, ShStr("unknown"))),
         availability_zone |-> Text(Default(e.AZ, ShStr("unknown"))),
         region |-> Text(Default(e.REGION, ShStr("unknown"))),
         private_ip |-> Text(Default(e.PRIVATE_IP, ShStr("unknown")))],
     openresty |->
        [status |-> Text(e.OPENRESTY_STATUS),
         responding |-> e.OPENRESTY_RESPONDING,
         version |-> Text(e.OPENRESTY_VERSION),
         pid |-> Text(e.OPENRESTY_PID),
         uptime_seconds |-> Default(e.OPENRESTY_UPTIME, ShNum(0))],
     s3_sync |->
        [status |-> Text(e.S3_SYNC_STATUS),
         last_sync |-> Text(Default(e.LAST_SYNC, ShStr("unknown"))),
         seconds_since_last_sync |->
             Default(e.LAST_SYNC_SECONDS_AGO, ShStr("null"))],
     system |->
        [load_average |-> Text(e.LOAD_AVG),
         memory_used_percent |-> Default(e.MEMORY_USED, ShNum(0)),
         disk_used |-> Text(e.DISK_USED),
         uptime_seconds |-> e.UPTIME_SECONDS]]

FileAbsent == [kind |-> "absent"]
FileEmpty == [kind |-> "empty"]
FileDoc(d) == [kind |-> "doc", doc |-> d]

(***************************************************************************)
(* JSON.parse of a snapshot document, as response.json() does it.          *)
(***************************************************************************)
JsBool(b) == [kind |-> "bool", n |-> IF b THEN 1 ELSE 0]

\* the bare text is a JSON literal
BareLiteral(v) ==
    \/ v.kind \in {"num", "dec"}
    \/ v.kind = "str" /\ v.s \in {"null", "true", "false"}

JsOf(v) ==
    CASE v.kind \in {"num", "dec"} -> Num(v.n)
      [] v.kind = "str" /\ v.s = "true" -> JsBool(TRUE)
      [] v.kind = "str" /\ v.s = "false" -> JsBool(FALSE)
      [] OTHER -> Null

BareFields(d) ==
    {d.openresty.responding, d.openresty.uptime_seconds,
     d.s3_sync.seconds_since_last_sync,
     d.system.memory_used_percent, d.system.uptime_seconds}

JSONValid(d) == \A v \in BareFields(d) : BareLiteral(v)

JSONParse(d) ==
    [kind |-> "data",
     status |-> d.status,
     timestamp |-> d.timestamp,
     instance |-> d.instance,
     services |->
        [kind |-> "obj",
         openresty |->
            [status |-> d.openresty.status,
             responding |-> JsOf(d.openresty.responding),
             version |-> d.openresty.version,
             pid |-> d.openresty.pid,
             uptime_seconds |-> JsOf(d.openresty.uptime_seconds)],
         s3_sync |->
            [status |-> d.s3_sync.status,
             last_sync |-> d.s3_sync.last_sync,
             seconds_since_last_sync |->
                 JsOf(d.s3_sync.seconds_since_last_sync)]],
     system |->
        [kind |-> "obj",
         load_average |-> d.system.load_average,
         memory_used_percent |-> JsOf(d.system.memory_used_percent),
         disk_used |-> d.system.disk_used,
         uptime_seconds |-> JsOf(d.system.uptime_seconds)]]

\* Date.prototype.toISOString
toISOString(t) == ToString(t) \o ".000Z"

(***************************************************************************)
(* The Lambda backend (lambda-backend/src/index.ts) behind the ALB.        *)
(***************************************************************************)
\* String.prototype.startsWith, endsWith
startsWith(s, p) == Len(p) <= Len(s) /\ SubSeq(s, 1, Len(p)) = p
endsWith(s, p) == Len(p) <= Len(s) /\ SubSeq(s, Len(s) - Len(p) + 1, Len(s)) = p

\* String.prototype.split with a one-character separator
RECURSIVE split(_, _)
split(s, sep) ==
    IF \A i \in 1..Len(s) : s[i] # sep THEN <<s>>
    ELSE LET k == CHOOSE i \in 1..Len(s) :
                      s[i] = sep /\ \A j \in 1..(i - 1) : s[j] # sep
         IN  <<SubSeq(s, 1, k - 1)>> \o split(SubSeq(s, k + 1, Len(s)), sep)

P_health == <<"/","h","e","a","l","t","h">>
P_health_detailed == <<"/","h","e","a","l","t","h","-","d","e","t","a","i","l","e","d">>
P_api == <<"/","a","p","i","/">>
P_api_metrics == <<"/","a","p","i","/","m","e","t","r","i","c","s">>
P_api_applications == <<"/","a","p","i","/","a","p","p","l","i","c","a","t","i","o","n","s">>
P_applications_prefix == <<"/","a","p","i","/","a","p","p","l","i","c","a","t","i","o","n","s","/">>
P_decision_suffix == <<"/","d","e","c","i","s","i","o","n">>

AvailabilityZones == {"us-east-1a", "us-east-1b", "us-east-1c"}

\* getServerInfo at clock t (seconds), with az the zone Math.random picked.
\* Date.now().toString().slice(-8) is the number itself below 10^8 ms.
getServerInfo(t, az) ==
    [instance |-> [id |-> "lambda-hitl-api-" \o ToString((t * 1000) % 100000000),
                   type |-> "lambda",
                   availability_zone |-> az,
                   region |-> "us-east-1"],
     timestamp |-> toISOString(t)]

\* createResponse
createResponse(statusCode, body) ==
    [statusCode |-> statusCode, body |-> body, isBase64Encoded |-> FALSE]

handleHealth(t, az) ==
    createResponse(200,
        [kind |-> "health", status |-> S_healthy, timestamp |-> toISOString(t),
         instance |-> getServerInfo(t, az).instance, version |-> "1.0"])

\* sampleApplications, lines 25-68: the id and status of each entry
sampleApplications ==
    <<[id |-> "APP-2025-001234", status |-> "pending"],
      [id |-> "APP-2025-001235", status |-> "pending"],
      [id |-> "APP-2025-001236", status |-> "approved"],
      [id |-> "APP-2025-001237", status |-> "rejected"],
      [id |-> "APP-2025-001238", status |-> "approved"],
      [id |-> "APP-2025-001239", status |-> "pending"]>>

\* handleMetrics; of data, pending_review is kept (the other three counters
\* are a literal plus Math.random)
handleMetrics(t, az) ==
    createResponse(200,
        [kind |-> "metrics",
         data |-> [pending_review |->
                      Cardinality({k \in DOMAIN apps :
                                      apps[k].status = "pending"})],
         server_info |-> getServerInfo(t, az),
         timestamp |-> toISOString(t)])

handleApplications(t, az) ==
    createResponse(200,
        [kind |-> "applications", data |-> apps,
         server_info |-> getServerInfo(t, az),
         timestamp |-> toISOString(t)])

\* request bodies: "none" (no body: the handler passes '{}'), "approve",
\* "reject" and "maybe" (a JSON object whose decision is that word),
\* "no-decision" (a JSON object without decision), "number" (the JSON text
\* 5), "null" (the JSON text null), "invalid" (not JSON)
RequestBodies ==
    {"none", "approve", "reject", "maybe", "no-decision", "number", "null",
     "invalid"}

\* JSON.parse(body) throws, or reading .decision of its value does
ParseThrows(body) == body \in {"null", "invalid"}

\* the text `${decision.decision}` gives
DecisionText(body) ==
    IF body \in {"approve", "reject", "maybe"} THEN body ELSE "undefined"

\* the characters of s as one string
RECURSIVE Joined(_)
Joined(s) == IF s = <<>> THEN "" ELSE s[1] \o Joined(Tail(s))

\* handleDecision: JSON.parse throws on text that is not JSON, and reading
\* decision.decision throws on null; both are caught
handleDecision(applicationId, body, t, az) ==
    IF ~ParseThrows(body)
    THEN createResponse(200,
             [kind |-> "decision", applicationId |-> applicationId,
              message |-> "Decision " \o DecisionText(body)
                          \o " recorded for application "
                          \o Joined(applicationId),
              server_info |-> getServerInfo(t, az),
              timestamp |-> toISOString(t)])
    ELSE createResponse(400, [kind |-> "error", error |-> "Invalid request body"])

handleOptions == createResponse(204, [kind |-> "empty"])

AvailableEndpoints ==
    <<"GET /health", "GET /health-detailed", "GET /api/metrics",
      "GET /api/applications", "POST /api/applications/{id}/decision">>

MethodNotAllowed ==
    createResponse(405, [kind |-> "error", error |-> "Method Not Allowed"])

\* the fourth case of the route switch, line 215
DecisionRoute(path) ==
    startsWith(path, P_applications_prefix) /\ endsWith(path, P_decision_suffix)

\* the handler with every GET route answering its handler for any method
handlerAnyMethod(method, path, body, t, az) ==
    IF method = "OPTIONS" THEN handleOptions
    ELSE CASE path = P_health \/ path = P_health_detailed -> handleHealth(t, az)
           [] path = P_api_metrics -> handleMetrics(t, az)
           [] path = P_api_applications -> handleApplications(t, az)
           [] DecisionRoute(path) ->
                handleDecision(split(path, "/")[4], body, t, az)
           [] OTHER ->
                createResponse(404,
                    [kind |-> "error", error |-> "Not Found",
                     available_endpoints |-> AvailableEndpoints])

\* handler, lines 183-250
handler(method, path, body, t, az) ==
    IF method = "OPTIONS" THEN handleOptions
    ELSE CASE path = P_health \/ path = P_health_detailed ->
                IF method = "GET" THEN handleHealth(t, az) ELSE MethodNotAllowed
           [] path = P_api_metrics ->
                IF method = "GET" THEN handleMetrics(t, az) ELSE MethodNotAllowed
           [] path = P_api_applications ->
                IF method = "GET" THEN handleApplications(t, az)
                ELSE MethodNotAllowed
           [] DecisionRoute(path) ->
                IF method = "POST"
                THEN handleDecision(split(path, "/")[4], body, t, az)
                ELSE MethodNotAllowed
           [] OTHER ->
                createResponse(404,
                    [kind |-> "error", error |-> "Not Found",
                     available_endpoints |-> AvailableEndpoints])

\* aws_lb_listener_rule.api_http: path_pattern /api/* forwards to the Lambda
\* target group, every other path to the instances
ALBTarget(path) == IF startsWith(path, P_api) THEN "lambda" ELSE "ec2"

\* handleDecision is reached and returns 200
DecisionAccepted(method, path, body) ==
    method = "POST" /\ DecisionRoute(path) /\ ~ParseThrows(body)

\* handleDecision writing the decision into the array
appsAfterDecisionRecorded(applicationId, body) ==
    [k \in DOMAIN apps |->
        IF apps[k].id = Joined(applicationId) /\ body \in {"approve", "reject"}
        THEN [apps[k] EXCEPT !.status = IF body = "approve" THEN "approved"
                                        ELSE "rejected"]
        ELSE apps[k]]

\* handleDecision lines 152-157: the decision is logged, the array is not
\* written
appsAfterDecision(applicationId, body) == apps

\* what one invocation of the handler leaves behind
Invocation(method, path, body, az) ==
    /\ lambdaOut' = handler(method, path, body, now, az)
    /\ IF DecisionAccepted(method, path, body)
       THEN /\ apps' = appsAfterDecision(split(path, "/")[4], body)
            /\ decisionLog' = [id |-> Joined(split(path, "/")[4]),
                               decision |-> DecisionText(body)]
       ELSE UNCHANGED <<apps, decisionLog>>

(***************************************************************************)
(* The dashboard (App.tsx).                                                *)
(***************************************************************************)
NullData == [kind |-> "null"]
NoObject == [kind |-> "undefined"]

\* the object literal of fetchHealthData's fallback branch, lines 93-103
SimpleSnapshot(text, t) ==
    [kind |-> "data",
     status |-> IF includes(text, S_healthy) THEN S_healthy ELSE S_unknown,
     timestamp |-> toISOString(t),
     instance |-> [id |-> "unknown", type |-> "unknown",
                   availability_zone |-> "unknown", region |-> "unknown",
                   private_ip |-> "unknown"],
     services |-> NoObject,
     system |-> NoObject]

\* the catch block storing the fallback's object literal
ErrorSnapshotAsUnknown(t) ==
    [kind |-> "data",
     status |-> S_unknown,
     timestamp |-> toISOString(t),
     instance |-> [id |-> "unknown", type |-> "unknown",
                   availability_zone |-> "unknown", region |-> "unknown",
                   private_ip |-> "unknown"],
     services |-> NoObject,
     system |-> NoObject]

\* the object literal of fetchHealthData's catch block, lines 108-118
ErrorSnapshot(t) ==
    [kind |-> "data",
     status |-> S_error,
     timestamp |-> toISOString(t),
     instance |-> [id |-> "error", type |-> "error",
                   availability_zone |-> "error", region |-> "error",
                   private_ip |-> "error"],
     services |-> NoObject,
     system |-> NoObject]

\* bodies a 200 answer to GET /health can carry: the web server's
\* 'healthy\n', or the text of an intermediary that answers in its place
HealthBodies == {S_healthy \o <<"\n">>, <<"O", "K">>}

\* healthData.services?.s3_sync?.seconds_since_last_sync
SyncSeconds(h) ==
    IF h.kind = "data" /\ h.services.kind = "obj"
    THEN h.services.s3_sync.seconds_since_last_sync
    ELSE Undefined

\* the S3 Sync row is rendered: healthData?.services && services.s3_sync
SyncRowShown(h) == h.kind = "data" /\ h.services.kind = "obj"

RemoveAt(q, i) == [j \in 1..(Len(q) - 1) |-> IF j < i THEN q[j] ELSE q[j + 1]]

NoBody == [kind |-> "none"]
TextBody(text) == [kind |-> "text", text |-> text]

NoCall == [trigger |-> "none", path |-> "none", seen |-> {}, body |-> NoBody,
           stored |-> NullData]

\* a call of fetchHealthData: up to the first await.  seen: the triggers of
\* the calls that were in flight at some time together with this one
StartFetch(trigger) ==
    /\ started < MaxFetches
    /\ started' = started + 1
    /\ inflight' = Append(
           [j \in 1..Len(inflight) |->
               [inflight[j] EXCEPT !.seen = @ \cup {trigger}]],
           [trigger |-> trigger, pc |-> "detailed", body |-> NoBody,
            seen |-> {inflight[j].trigger : j \in 1..Len(inflight)}])

\* fetchHealthData with a setHealthData(null) in the branch that stores
\* nothing
FinishClears(i, path, body, stored) ==
    /\ healthData' = stored
    /\ loading' = FALSE
    /\ lastResolved' = [trigger |-> inflight[i].trigger, path |-> path,
                        seen |-> inflight[i].seen, body |-> body,
                        stored |-> stored]
    /\ inflight' = RemoveAt(inflight, i)
    /\ UNCHANGED <<mounted, refreshCount, lastRefresh, started, interval,
                   metricsVars>>

\* fetchHealthData returns: the finally block, after the branch stored
\* `stored` (NullData when the branch called no setHealthData)
Finish(i, path, body, stored) ==
    /\ healthData' = IF stored = NullData THEN healthData ELSE stored
    /\ loading' = FALSE
    /\ lastResolved' = [trigger |-> inflight[i].trigger, path |-> path,
                        seen |-> inflight[i].seen, body |-> body,
                        stored |-> stored]
    /\ inflight' = RemoveAt(inflight, i)
    /\ UNCHANGED <<mounted, refreshCount, lastRefresh, started, interval,
                   metricsVars>>

NoInterval == [state |-> "none", period |-> 0]

NullInfo == [kind |-> "null"]

\* a pending fetch('/api/metrics') chain
AwaitingFetch == [pc |-> "fetch"]

\* fetch('/api/metrics') is called: the chain up to its first callback
StartMetrics == metrics' = metrics (+) SetToBag({AwaitingFetch})

\* the chain c ends, leaving `payload` as the stored metrics payload
EndMetrics(c, outcome, payload) ==
    /\ metrics' = metrics (-) SetToBag({c})
    /\ lambdaData' = payload
    /\ lastMetrics' = outcome

\* refreshData without the fetch('/api/metrics') line
RefreshDataHealthOnly ==
    /\ mounted = "mounted"
    /\ ~loading
    /\ refreshCount < MaxRefresh
    /\ loading' = TRUE
    /\ refreshCount' = refreshCount + 1
    /\ lastRefresh' = now
    /\ StartFetch("manual")
    /\ UNCHANGED <<mounted, healthData, lastResolved, interval, metricsVars>>
    /\ UNCHANGED <<now, reporterVars, probeVars, captureVars>>

\* the timer callback being refreshData instead of fetchHealthData
TimerTickRefreshes ==
    /\ interval.state = "armed"
    /\ refreshCount' = refreshCount + 1
    /\ lastRefresh' = now
    /\ StartFetch("timer")
    /\ StartMetrics
    /\ UNCHANGED <<mounted, healthData, loading, lastResolved, interval,
                   lambdaData, lastMetrics>>
    /\ UNCHANGED <<now, reporterVars, probeVars, captureVars>>

\* useEffect(..., []) lines 133-141
Mount ==
    /\ mounted = "initial"
    /\ mounted' = "mounted"
    /\ StartFetch("mount")
    /\ StartMetrics
    /\ interval' = [state |-> "armed", period |-> PollInterval]
    /\ capture' = "sent"
    /\ UNCHANGED <<healthData, loading, refreshCount, lastRefresh, lastResolved,
                   lambdaData, lastMetrics, ec2Data>>
    /\ UNCHANGED <<now, reporterVars, probeVars>>

\* setInterval(fetchHealthData, 30000) fires
TimerTick ==
    /\ interval.state = "armed"
    /\ StartFetch("timer")
    /\ UNCHANGED <<mounted, healthData, loading, refreshCount, lastRefresh,
                   lastResolved, interval, metricsVars>>
    /\ UNCHANGED <<now, reporterVars, probeVars, captureVars>>

\* refreshData behind a button that is never disabled
RefreshDataAlwaysEnabled ==
    /\ mounted = "mounted"
    /\ refreshCount < MaxRefresh
    /\ loading' = TRUE
    /\ refreshCount' = refreshCount + 1
    /\ lastRefresh' = now
    /\ StartFetch("manual")
    /\ StartMetrics
    /\ UNCHANGED <<mounted, healthData, lastResolved, interval, lambdaData,
                   lastMetrics>>
    /\ UNCHANGED <<now, reporterVars, probeVars, captureVars>>

\* refreshData, lines 124-131, behind the button's disabled={loading}
RefreshData ==
    /\ mounted = "mounted"
    /\ ~loading
    /\ refreshCount < MaxRefresh
    /\ loading' = TRUE
    /\ refreshCount' = refreshCount + 1
    /\ lastRefresh' = now
    /\ StartFetch("manual")
    /\ StartMetrics
    /\ UNCHANGED <<mounted, healthData, lastResolved, interval, lambdaData,
                   lastMetrics>>
    /\ UNCHANGED <<now, reporterVars, probeVars, captureVars>>

\* the cleanup of useEffect, line 140: clearInterval.  React drops the state
\* updates of an unmounted component, so the calls still pending can no
\* longer change the view state
Unmount ==
    /\ mounted = "mounted"
    /\ mounted' = "unmounted"
    /\ interval' = [interval EXCEPT !.state = "cleared"]
    /\ inflight' = <<>>
    /\ metrics' = EmptyBag
    /\ UNCHANGED <<healthData, loading, refreshCount, lastRefresh, started,
                   lastResolved, lambdaData, lastMetrics>>
    /\ UNCHANGED <<now, reporterVars, probeVars, captureVars>>

\* the catch of the metrics chain storing null
MetricsFailedClears(c, outcome) == EndMetrics(c, outcome, NullInfo)

\* .catch(console.error), lines 130 and 137
MetricsFailed(c, outcome) == EndMetrics(c, outcome, lambdaData)

\* fetch('/api/metrics') settles and the chain runs to its end; the
\* callbacks between the settlement and the end touch nothing but the chain's
\* own values.  The ALB forwards the path to the Lambda and relays its
\* answer (setLambdaData(data.server_info)), or answers with an error page of
\* its own (res.json() rejects), or the request fails
MetricsSettles ==
    /\ BagIn(AwaitingFetch, metrics)
    /\ \/ \E az \in AvailabilityZones :
              /\ ALBTarget(P_api_metrics) = "lambda"
              /\ EndMetrics(AwaitingFetch, "stored",
                     [kind |-> "info",
                      info |-> handler("GET", P_api_metrics, "none", now, az)
                                  .body.server_info])
       \/ MetricsFailed(AwaitingFetch, "json-failure")
       \/ MetricsFailed(AwaitingFetch, "network-failure")
    /\ UNCHANGED <<mounted, healthData, loading, refreshCount, lastRefresh,
                   inflight, started, lastResolved, interval>>
    /\ UNCHANGED <<now, reporterVars, probeVars, captureVars>>

\* await fetch('/health-detailed') settles
DetailedSettles ==
    \E i \in 1..Len(inflight) : \E outcome \in {"ok", "notok", "reject"} :
        /\ inflight[i].pc = "detailed"
        /\ CASE outcome = "ok" ->
                  /\ file.kind # "absent"
                  /\ inflight' = [inflight EXCEPT ![i].pc = "json",
                                                  ![i].body = file]
                  /\ UNCHANGED <<mounted, healthData, loading, refreshCount,
                                 lastRefresh, started, lastResolved,
                                 interval, metricsVars>>
             [] outcome = "notok" ->
                  /\ inflight' = [inflight EXCEPT ![i].pc = "simple"]
                  /\ UNCHANGED <<mounted, healthData, loading, refreshCount,
                                 lastRefresh, started, lastResolved,
                                 interval, metricsVars>>
             [] OTHER ->
                  Finish(i, "detailed-rejected", NoBody, ErrorSnapshot(now))
        /\ UNCHANGED <<now, reporterVars, probeVars, captureVars>>

\* fetchHealthData with the response.json() call in a try block of its own
\* that goes on to the /health request
JsonSettlesFallsBack ==
    \E i \in 1..Len(inflight) : \E outcome \in {"parsed", "reject"} :
        /\ inflight[i].pc = "json"
        /\ IF outcome = "parsed"
           THEN /\ inflight[i].body.kind = "doc"
                /\ JSONValid(inflight[i].body.doc)
                /\ Finish(i, "detailed-ok", inflight[i].body,
                          JSONParse(inflight[i].body.doc))
           ELSE /\ inflight' = [inflight EXCEPT ![i].pc = "simple"]
                /\ UNCHANGED <<mounted, healthData, loading, refreshCount,
                               lastRefresh, started, lastResolved,
                               interval, metricsVars>>
        /\ UNCHANGED <<now, reporterVars, probeVars, captureVars>>

\* await response.json() settles
JsonSettles ==
    \E i \in 1..Len(inflight) : \E outcome \in {"parsed", "reject"} :
        /\ inflight[i].pc = "json"
        /\ IF outcome = "parsed"
           THEN /\ inflight[i].body.kind = "doc"
                /\ JSONValid(inflight[i].body.doc)
                /\ Finish(i, "detailed-ok", inflight[i].body,
                          JSONParse(inflight[i].body.doc))
           ELSE Finish(i, "json-rejected", inflight[i].body,
                       ErrorSnapshot(now))
        /\ UNCHANGED <<now, reporterVars, probeVars, captureVars>>

\* await fetch('/health') settles
SimpleSettles ==
    \E i \in 1..Len(inflight) : \E outcome \in {"ok", "notok", "reject"} :
        /\ inflight[i].pc = "simple"
        /\ CASE outcome = "ok" ->
                  /\ inflight' = [inflight EXCEPT ![i].pc = "text"]
                  /\ UNCHANGED <<mounted, healthData, loading, refreshCount,
                                 lastRefresh, started, lastResolved,
                                 interval, metricsVars>>
             [] outcome = "notok" ->
                  Finish(i, "simple-notok", NoBody, NullData)
             [] OTHER ->
                  Finish(i, "simple-rejected", NoBody, ErrorSnapshot(now))
        /\ UNCHANGED <<now, reporterVars, probeVars, captureVars>>

\* await simpleResponse.text() settles
TextSettles ==
    \E i \in 1..Len(inflight) :
        /\ inflight[i].pc = "text"
        /\ \/ \E text \in HealthBodies :
                 Finish(i, "simple-ok", TextBody(text),
                        SimpleSnapshot(text, now))
           \/ Finish(i, "text-rejected", NoBody, ErrorSnapshot(now))
        /\ UNCHANGED <<now, reporterVars, probeVars, captureVars>>

\* Headers.get: the value, or null for a header the response lacks
HeaderGet(headers, name) ==
    IF name \in DOMAIN headers THEN headers[name] ELSE ""

\* v || 'unknown': null and the empty string are falsy
OrUnknown(v) == IF v = "" THEN "unknown" ELSE v

\* the object captureEC2Data stores for a response, lines 63-70
EC2Snapshot(response, t) ==
    [kind |-> "data",
     instance_id |-> OrUnknown(HeaderGet(response.headers, "X-Instance-ID")),
     served_by |-> OrUnknown(HeaderGet(response.headers, "Server")),
     served_at |-> toISOString(t)]

\* the object of captureEC2Data's catch block, lines 73-77
EC2Error(t) ==
    [kind |-> "data", instance_id |-> "error", served_by |-> "error",
     served_at |-> toISOString(t)]

\* what the load balancer answers when it has no instance to forward to
GatewayError == [status |-> 503, headers |-> ("Server" :> "awselb/2.0")]

\* the "capture" button, line 257: captureEC2Data is called again (one call
\* at a time)
CaptureClick ==
    /\ mounted = "mounted"
    /\ capture = "done"
    /\ capture' = "sent"
    /\ UNCHANGED <<now, reporterVars, healthVars, ec2Data, probeVars>>

\* await fetch('/', { method: 'HEAD' }) settles: with the answer of the
\* instance, with an answer of the load balancer, or by a network failure
CaptureSettles ==
    /\ mounted = "mounted"
    /\ capture \in {"sent", "received"}
    /\ capture' = "done"
    /\ \/ /\ capture = "received"
          /\ root.pc = "served"
          /\ ec2Data' = EC2Snapshot(root.response, now)
       \/ /\ capture = "sent"
          /\ ec2Data' = EC2Snapshot(GatewayError, now)
       \/ ec2Data' = EC2Error(now)
    /\ UNCHANGED <<now, reporterVars, healthVars, probeVars>>

(***************************************************************************)
(* The node: the clock, the sync job and the reporter.                     *)
(***************************************************************************)
Tick ==
    /\ now + TimeStep <= MaxTime
    /\ now' = now + TimeStep
    /\ UNCHANGED <<reporterVars, appVars, probeVars>>

\* how a run of sync-from-s3.sh ends: "curl-failed" (a curl of lines 4-6
\* exits non-zero and set -e ends the script), "no-region" (line 12),
\* "tags-failed" (describe-tags of line 17 exits non-zero), "no-bucket"
\* (line 38), "sync-failed" (line 25), "synced" (line 34 is reached)
SyncOutcomes ==
    {"synced", "curl-failed", "no-region", "tags-failed", "no-bucket",
     "sync-failed"}

NoSyncRun == [outcome |-> "none", at |-> 0, synced |-> 0]

\* sync-from-s3.sh writing the marker before it runs aws s3 sync
SyncRunMarksFirst(outcome) ==
    marker' = IF outcome \in {"synced", "sync-failed"} THEN ShIso(now)
              ELSE marker

\* sync-from-s3.sh: the marker is written on the path that reaches line 32
SyncRun(outcome) ==
    marker' = IF outcome = "synced" THEN ShIso(now) ELSE marker

\* cron runs sync-from-s3.sh
SyncFromS3 ==
    \E outcome \in SyncOutcomes :
        /\ SyncRun(outcome)
        /\ UNCHANGED <<file, rpc, chk, rmarker, env, rlast, rtime, runs, faults,
                       slog, root>>
        /\ UNCHANGED <<now, appVars, probeVars>>

\* cron runs sync-from-s3.sh, and how and when the run ended is recorded
SyncFromS3Recorded ==
    \E outcome \in SyncOutcomes :
        /\ SyncRun(outcome)
        /\ slog' = [outcome |-> outcome, at |-> now,
                    synced |-> IF outcome = "synced" THEN now ELSE slog.synced]
        /\ UNCHANGED <<file, rpc, chk, rmarker, env, rlast, rtime, runs, faults,
                       root>>
        /\ UNCHANGED <<now, appVars, probeVars>>

\* generate-health.sh lines 1-62: cron starts a run and it samples
ReporterSample ==
    \E c \in Outcomes(AllOk, faults) :
        /\ rpc = "idle"
        /\ runs < MaxRuns
        /\ runs' = runs + 1
        /\ faults' = faults - FaultCount(c)
        /\ chk' = c
        /\ rmarker' = IF MetadataAborts(c) THEN Absent ELSE marker
        /\ rtime' = now
        /\ IF MetadataAborts(c)
           THEN /\ env' = EnvInit
                /\ rpc' = "idle"
                /\ rlast' = "aborted"
           ELSE /\ env' = Sample(c, marker, now)
                /\ rpc' = "sampled"
                /\ rlast' = "running"
        /\ UNCHANGED <<marker, file, slog, root>>
        /\ UNCHANGED <<now, appVars, probeVars>>

\* generate-health.sh line 65: the shell opens the redirection target
ReporterTruncate ==
    /\ rpc = "sampled"
    /\ rpc' = "truncated"
    /\ file' = FileEmpty
    /\ UNCHANGED <<marker, chk, rmarker, env, rlast, rtime, runs, faults, slog,
                   root>>
    /\ UNCHANGED <<now, appVars, probeVars>>

\* generate-health.sh lines 65-117: cat writes the heredoc, the run ends and
\* its shell variables with it
ReporterWrite ==
    /\ rpc = "truncated"
    /\ rpc' = "idle"
    /\ file' = FileDoc(Render(env, now))
    /\ rlast' = "emitted"
    /\ env' = EnvInit
    /\ UNCHANGED <<marker, chk, rmarker, rtime, runs, faults, slog, root>>
    /\ UNCHANGED <<now, appVars, probeVars>>

(***************************************************************************)
(* The root document: location / of install-nginx.sh, whose                *)
(* access_by_lua_block asks the instance metadata service for the instance *)
(* id on every request.  root.imds lists the requests it has sent and      *)
(* root.got what came back for each.                                       *)
(***************************************************************************)
ImdsToken == "AQAEAJtoken"
InstanceId == "i-0abc"

\* the PUT of line 64 and the GET of line 72
TokenRequest == [method |-> "PUT", url |-> "/latest/api/token", token |-> ""]
MetadataRequest(item, token) ==
    [method |-> "GET", url |-> "/latest/meta-data/" \o item, token |-> token]

\* httpc:request_uri returns a response with status 200, a response with
\* another status, or nil (timeout, connection refused)
UriOutcomes == {"200", "other", "nil"}

NoResponse == [status |-> 0, headers |-> <<>>]
IdleRoot == [pc |-> "idle", imds |-> <<>>, got |-> <<>>, response |-> NoResponse]

\* the add_header directives of the server block, lines 88-91, which
\* location / inherits, and the Server header of OpenResty
ServerHeaders ==
    [h \in {"X-Frame-Options", "X-Content-Type-Options", "X-XSS-Protection",
            "Server"} |->
        CASE h = "X-Frame-Options" -> "DENY"
          [] h = "X-Content-Type-Options" -> "nosniff"
          [] h = "X-XSS-Protection" -> "1; mode=block"
          [] OTHER -> "openresty"]

\* try_files answers with the document; ngx.header["X-Instance-ID"] = id
RootResponse(id) ==
    [status |-> 200, headers |-> ("X-Instance-ID" :> id) @@ ServerHeaders]

\* a request for / reaches the instance: the access phase starts, lines 60-68
RootAccess ==
    /\ capture = "sent"
    /\ capture' = "received"
    /\ root' = [pc |-> "token", imds |-> <<TokenRequest>>, got |-> <<>>,
                response |-> NoResponse]
    /\ UNCHANGED <<now, jobVars, healthVars, ec2Data, probeVars>>

\* the token request returns, lines 70-83
RootTokenSettles ==
    \E outcome \in UriOutcomes :
        /\ root.pc = "token"
        /\ root' = IF outcome = "200"
                   THEN [root EXCEPT
                            !.pc = "metadata",
                            !.got = Append(@, outcome),
                            !.imds = Append(@, MetadataRequest("instance-id",
                                                               ImdsToken))]
                   ELSE [root EXCEPT !.pc = "served",
                                     !.got = Append(@, outcome),
                                     !.response = RootResponse("token-error")]
        /\ UNCHANGED <<now, jobVars, appVars, probeVars>>

\* the instance-id request returns, lines 76-80
RootMetadataSettles ==
    \E outcome \in UriOutcomes :
        /\ root.pc = "metadata"
        /\ root' = [root EXCEPT
                       !.pc = "served",
                       !.got = Append(@, outcome),
                       !.response =
                           RootResponse(IF outcome = "200" THEN InstanceId
                                        ELSE "metadata-error")]
        /\ UNCHANGED <<now, jobVars, appVars, probeVars>>

(***************************************************************************)
(* Evaluations of the two classifiers on arbitrary arguments.              *)
(***************************************************************************)
StatusInputs ==
    Casings(S_healthy) \cup Casings(S_degraded) \cup Casings(S_unhealthy)
    \cup Casings(S_error) \cup Casings(S_unknown)
    \cup {<<>>, <<"o", "k">>, S_healthy \o <<"\n">>, <<" ">> \o S_healthy,
          <<"h", "e", "a", "l", "t", "h">>, <<"a", "c", "t", "i", "v", "e">>}

SyncInputs == {Null, Undefined} \cup {Num(n) : n \in (0 - MaxEarly)..MaxAge}

\* the System Status card, lines 296-317
RenderStatus ==
    /\ statusOut = "none"
    /\ statusOut' = getStatusColor(statusArg)
    /\ UNCHANGED <<statusArg, syncArg, syncOut, lambdaReq, lambdaOut,
                   containerVars>>
    /\ UNCHANGED <<now, reporterVars, appVars>>

\* the S3 Sync row, lines 353-366
RenderSync ==
    /\ syncOut.color = "none"
    /\ syncOut' = [color |-> getSyncStatusColor(syncArg),
                   text |-> formatSyncTime(syncArg)]
    /\ UNCHANGED <<syncArg, statusArg, statusOut, lambdaReq, lambdaOut,
                   containerVars>>
    /\ UNCHANGED <<now, reporterVars, appVars>>

P_api_health == <<"/","a","p","i","/","h","e","a","l","t","h">>
P_api_health_detailed == <<"/","a","p","i","/","h","e","a","l","t","h","-","d","e","t","a","i","l","e","d">>
P_api_status == <<"/","a","p","i","/","s","t","a","t","u","s">>
P_api_info == <<"/","a","p","i","/","i","n","f","o">>
P_decision_7 == <<"/","a","p","i","/","a","p","p","l","i","c","a","t","i","o","n","s","/","7","/","d","e","c","i","s","i","o","n">>
P_decision_no_id == <<"/","a","p","i","/","a","p","p","l","i","c","a","t","i","o","n","s","/","d","e","c","i","s","i","o","n">>
P_decision_empty_id == <<"/","a","p","i","/","a","p","p","l","i","c","a","t","i","o","n","s","/","/","d","e","c","i","s","i","o","n">>
P_decision_1234 == <<"/","a","p","i","/","a","p","p","l","i","c","a","t","i","o","n","s","/","A","P","P","-","2","0","2","5","-","0","0","1","2","3","4","/","d","e","c","i","s","i","o","n">>
P_decision_nested == <<"/","a","p","i","/","a","p","p","l","i","c","a","t","i","o","n","s","/","7","/","x","/","d","e","c","i","s","i","o","n">>

\* the paths and methods of the requests the handler is evaluated on
LambdaPaths ==
    {P_health, P_health_detailed, P_api_metrics, P_api_applications,
     P_api_health, P_api_health_detailed, P_api_status, P_api_info,
     P_decision_7, P_decision_1234, P_decision_no_id, P_decision_empty_id,
     P_decision_nested,
     <<"/","a","p","i","/","a","p","p","l","i","c","a","t","i","o","n","s","/","7">>,
     <<"/","a","p","i","/","m","e","t","r","i","c","s","/">>,
     <<"/">>,
     <<"/","i","n","d","e","x",".","h","t","m","l">>,
     <<"/","H","e","a","l","t","h">>}
LambdaMethods == {"GET", "POST", "OPTIONS", "PUT", "DELETE", "HEAD"}

NoRequest == [method |-> "none", path |-> <<>>, body |-> "none"]
NoResult == [statusCode |-> 0, body |-> [kind |-> "none"], isBase64Encoded |-> FALSE]

\* one invocation of the Lambda handler on the event in lambdaReq
Invoke ==
    /\ lambdaOut = NoResult
    /\ \E az \in AvailabilityZones :
          Invocation(lambdaReq.method, lambdaReq.path, lambdaReq.body, az)
    /\ UNCHANGED <<lambdaReq, statusArg, statusOut, syncArg, syncOut>>
    /\ UNCHANGED <<now, reporterVars, appVars>>

NoDecision == [id |-> "", decision |-> ""]

\* the requests of the sequences the handler is run on
ServedMethods == {"GET", "POST"}
ServedPaths == {P_api_applications, P_api_metrics, P_decision_1234, P_decision_7}
ServedBodies == {"none", "approve", "reject", "invalid"}

\* the ALB hands the handler a request, in a container that may have served
\* others before
Serve ==
    \E method \in ServedMethods, path \in ServedPaths, body \in ServedBodies,
       az \in AvailabilityZones :
        /\ lambdaReq' = [method |-> method, path |-> path, body |-> body]
        /\ Invocation(method, path, body, az)
        /\ UNCHANGED <<statusArg, statusOut, syncArg, syncOut>>
        /\ UNCHANGED <<now, reporterVars, appVars>>

\* the next request is served by a new container: the module is loaded
\* again, line 25
ColdStart ==
    /\ lambdaOut # NoResult
    /\ apps' = sampleApplications
    /\ UNCHANGED <<decisionLog, lambdaReq, lambdaOut, statusArg, statusOut,
                   syncArg, syncOut>>
    /\ UNCHANGED <<now, reporterVars, appVars>>

(***************************************************************************)
(* Specifications.                                                         *)
(***************************************************************************)
InitNode ==
    /\ now = Epoch0
    /\ marker = Absent
    /\ file = FileAbsent
    /\ rpc = "idle"
    /\ chk = AllOk
    /\ rmarker = Absent
    /\ env = EnvInit
    /\ rlast = "none"
    /\ rtime = Epoch0
    /\ runs = 0
    /\ slog = NoSyncRun
    /\ root = IdleRoot

\* the state of App after its first render: the useState initial values
InitApp ==
    /\ mounted = "initial"
    /\ healthData = NullData
    /\ loading = TRUE
    /\ refreshCount = 0
    /\ lastRefresh = Epoch0
    /\ inflight = <<>>
    /\ started = 0
    /\ lastResolved = NoCall
    /\ interval = NoInterval
    /\ metrics = EmptyBag
    /\ lambdaData = NullInfo
    /\ lastMetrics = "none"
    /\ capture = "none"
    /\ ec2Data = NullData

InitStatusProbe == statusArg = <<>> /\ statusOut = "none"
InitSyncProbe == syncArg = Undefined /\ syncOut = [color |-> "none", text |-> "none"]
InitContainer == apps = sampleApplications /\ decisionLog = NoDecision
InitLambdaProbe == lambdaReq = NoRequest /\ lambdaOut = NoResult /\ InitContainer

\* the node and the dashboard together; every sub-check of the reporter
\* returns its normal value
Init == InitNode /\ faults = 0 /\ InitApp /\ InitStatusProbe /\ InitSyncProbe
    /\ InitLambdaProbe

Next ==
    \/ Tick
    \/ SyncFromS3
    \/ ReporterSample
    \/ ReporterTruncate
    \/ ReporterWrite
    \/ Mount
    \/ TimerTick
    \/ RefreshData
    \/ DetailedSettles
    \/ JsonSettles
    \/ SimpleSettles
    \/ TextSettles

Spec == Init /\ [][Next]_vars

\* the node alone, with up to MaxFaults sub-checks failing
InitReporter ==
    InitNode /\ faults = MaxFaults /\ InitApp /\ InitStatusProbe /\ InitSyncProbe
    /\ InitLambdaProbe

NextReporter ==
    \/ Tick
    \/ SyncFromS3
    \/ ReporterSample
    \/ ReporterTruncate
    \/ ReporterWrite

SpecReporter == InitReporter /\ [][NextReporter]_vars

\* getStatusColor on every status string of StatusInputs
InitStatus ==
    /\ InitNode /\ faults = 0 /\ InitApp /\ InitSyncProbe /\ InitLambdaProbe
    /\ statusArg \in StatusInputs
    /\ statusOut = "none"

NextStatus == RenderStatus

SpecStatus == InitStatus /\ [][NextStatus]_vars

\* the sync indicator on every age of SyncInputs
InitSync ==
    /\ InitNode /\ faults = 0 /\ InitApp /\ InitStatusProbe /\ InitLambdaProbe
    /\ syncArg \in SyncInputs
    /\ syncOut = [color |-> "none", text |-> "none"]

NextSync == RenderSync

SpecSync == InitSync /\ [][NextSync]_vars

\* marker files a run can find: none, an empty one, one whose text date -d
\* rejects, and timestamps of several ages
MarkerAges == {0, 45, 700}
MarkerInputs ==
    {Absent, ShEmpty, ShStr("not a timestamp")}
    \cup {ShIso(Epoch0 - a) : a \in MarkerAges}

\* the node alone, on every marker file of MarkerInputs, with up to
\* MaxFaults sub-checks failing
InitMarker ==
    /\ now = Epoch0
    /\ marker \in MarkerInputs
    /\ file = FileAbsent
    /\ rpc = "idle"
    /\ chk = AllOk
    /\ rmarker = Absent
    /\ env = EnvInit
    /\ rlast = "none"
    /\ rtime = Epoch0
    /\ runs = 0
    /\ slog = NoSyncRun
    /\ root = IdleRoot
    /\ faults = MaxFaults
    /\ InitApp /\ InitStatusProbe /\ InitSyncProbe /\ InitLambdaProbe

NextMarker ==
    \/ Tick
    \/ SyncFromS3
    \/ ReporterSample
    \/ ReporterTruncate
    \/ ReporterWrite

SpecMarker == InitMarker /\ [][NextMarker]_vars

\* the Lambda handler on every request of LambdaMethods x LambdaPaths
InitLambda ==
    /\ InitNode /\ faults = 0 /\ InitApp /\ InitStatusProbe /\ InitSyncProbe
    /\ lambdaReq \in [method : LambdaMethods, path : LambdaPaths,
                      body : RequestBodies]
    /\ lambdaOut = NoResult
    /\ InitContainer

NextLambda == Invoke

SpecLambda == InitLambda /\ [][NextLambda]_vars

\* the dashboard against a node whose reporter has completed one run, with
\* the metrics requests answered and the component unmounted at any time
InitDashboard ==
    /\ now = Epoch0
    /\ marker = Absent
    /\ file = FileDoc(Render(Sample(AllOk, Absent, Epoch0), Epoch0))
    /\ rpc = "idle"
    /\ chk = AllOk
    /\ rmarker = Absent
    /\ env = EnvInit
    /\ rlast = "emitted"
    /\ rtime = Epoch0
    /\ runs = 1
    /\ slog = NoSyncRun
    /\ root = IdleRoot
    /\ faults = 0
    /\ InitApp /\ InitStatusProbe /\ InitSyncProbe /\ InitLambdaProbe

NextDashboard ==
    \/ Tick
    \/ Mount
    \/ TimerTick
    \/ RefreshData
    \/ Unmount
    \/ DetailedSettles
    \/ JsonSettles
    \/ SimpleSettles
    \/ TextSettles
    \/ MetricsSettles

SpecDashboard == InitDashboard /\ [][NextDashboard]_vars

\* the node alone, with the sync job's runs recorded and up to MaxFaults
\* sub-checks of the reporter failing
InitSyncJob == InitReporter

NextSyncJob ==
    \/ Tick
    \/ SyncFromS3Recorded
    \/ ReporterSample
    \/ ReporterTruncate
    \/ ReporterWrite

SpecSyncJob == InitSyncJob /\ [][NextSyncJob]_vars

\* the root document: the dashboard's captureEC2Data against location /,
\* on a node whose reporter runs, with up to MaxFaults sub-checks failing
InitRoot == InitReporter

NextRoot ==
    \/ Tick
    \/ ReporterSample
    \/ ReporterTruncate
    \/ ReporterWrite
    \/ Mount
    \/ RootAccess
    \/ RootTokenSettles
    \/ RootMetadataSettles
    \/ CaptureSettles
    \/ CaptureClick

SpecRoot == InitRoot /\ [][NextRoot]_vars

\* the Lambda handler serving any sequence of requests
InitRequests == Init

NextRequests ==
    \/ Tick
    \/ Serve
    \/ ColdStart

SpecRequests == InitRequests /\ [][NextRequests]_vars

\* the dashboard reading /health-detailed while the reporter, which has
\* completed one run, rewrites the file in another
InitReads ==
    /\ now = Epoch0
    /\ marker = Absent
    /\ file = FileDoc(Render(Sample(AllOk, Absent, Epoch0), Epoch0))
    /\ rpc = "idle"
    /\ chk = AllOk
    /\ rmarker = Absent
    /\ env = EnvInit
    /\ rlast = "emitted"
    /\ rtime = Epoch0
    /\ runs = 0
    /\ slog = NoSyncRun
    /\ root = IdleRoot
    /\ faults = 0
    /\ InitApp /\ InitStatusProbe /\ InitSyncProbe /\ InitLambdaProbe

NextReads ==
    \/ ReporterSample
    \/ ReporterTruncate
    \/ ReporterWrite
    \/ Mount
    \/ TimerTick
    \/ RefreshData
    \/ DetailedSettles
    \/ JsonSettles
    \/ SimpleSettles
    \/ TextSettles

SpecReads == InitReads /\ [][NextReads]_vars

(***************************************************************************)
(* Properties.                                                             *)
(***************************************************************************)
FirstFetchCompleted == lastResolved.trigger # "none"

IdentityAll(h, v) ==
    h.instance = [id |-> v, type |-> v, availability_zone |-> v,
                  region |-> v, private_ip |-> v]

\* C1: once the first fetchHealthData call has returned, by any path, the
\* stored health snapshot is non-null, in that state and in every later one.
C1_SnapshotAfterFirstFetch ==
    FirstFetchCompleted => healthData.kind = "data"

\* C2: when /health-detailed answered with a non-success status and the
\* /health fallback failed too (non-success status or network failure), the
\* stored snapshot's status is "error".
C2_FailedFallbackStoresError ==
    lastResolved.path \in {"simple-notok", "simple-rejected", "text-rejected"}
        => healthData.kind = "data" /\ healthData.status = S_error

\* C3: every fetch cycle that has ended left loading = false behind when no
\* other cycle is running, and ended by having set a concrete snapshot.
C3_CycleEndsWithSnapshot ==
    FirstFetchCompleted =>
        /\ (Len(inflight) = 0 => ~loading)
        /\ lastResolved.stored.kind = "data"

\* the part of C3 the code keeps: with no cycle running, loading is false
NoStuckLoading ==
    (mounted = "mounted" /\ Len(inflight) = 0) => ~loading

\* C4: a timer-triggered and a manually triggered fetchHealthData call
\* overlapped and both have returned: the displayed snapshot is the one the
\* call that returned last produced, and loading is false.
C4_LastResolvedWins ==
    (/\ Len(inflight) = 0
     /\ lastResolved.trigger \in {"timer", "manual"}
     /\ ({"timer", "manual"} \ {lastResolved.trigger}) \subseteq lastResolved.seen)
        => healthData = lastResolved.stored /\ ~loading

\* C5: the snapshot a call stores is determined by how its requests ended:
\* the parsed body after a success answer from /health-detailed; after a
\* non-success answer and a successful /health, a snapshot with the five
\* identity fields "unknown" and status "healthy" when the text contains
\* "healthy", "unknown" otherwise; after a network failure, status "error"
\* and the five identity fields "error".
C5_OutcomeDeterminesSnapshot ==
    /\ lastResolved.stored.kind = "data" => healthData = lastResolved.stored
    /\ lastResolved.path = "detailed-ok" =>
          /\ lastResolved.body.kind = "doc"
          /\ healthData.status = lastResolved.body.doc.status
          /\ healthData.timestamp = lastResolved.body.doc.timestamp
          /\ healthData.instance = lastResolved.body.doc.instance
          /\ healthData.services.kind = "obj"
          /\ healthData.services.openresty.status =
                 lastResolved.body.doc.openresty.status
          /\ healthData.services.s3_sync.status =
                 lastResolved.body.doc.s3_sync.status
          /\ healthData.services.s3_sync.last_sync =
                 lastResolved.body.doc.s3_sync.last_sync
          /\ healthData.system.kind = "obj"
          /\ healthData.system.disk_used = lastResolved.body.doc.system.disk_used
    /\ lastResolved.path = "simple-ok" =>
          /\ IdentityAll(healthData, "unknown")
          /\ lastResolved.body.text = <<"h","e","a","l","t","h","y","\n">>
                 => healthData.status = <<"h","e","a","l","t","h","y">>
          /\ lastResolved.body.text = <<"O","K">>
                 => healthData.status = <<"u","n","k","n","o","w","n">>
    /\ lastResolved.path \in {"detailed-rejected", "simple-rejected",
                              "text-rejected"} =>
          /\ IdentityAll(healthData, "error")
          /\ healthData.status = <<"e","r","r","o","r">>

C5_Witness ==
    /\ lastResolved.path = "simple-ok"
    /\ lastResolved.body.text = <<"O","K">>
    /\ healthData.status = S_unknown
    /\ lastResolved.trigger = "manual"

SyncRendered == syncOut.color # "none"

C7_StatusColourIgnoresCase ==
    statusOut # "none" =>
        statusOut = (CASE statusArg \in Casings(S_healthy) -> Green
                       [] statusArg \in Casings(S_degraded) -> Yellow
                       [] statusArg \in Casings(S_unhealthy) -> Red
                       [] OTHER -> Gray)

C7_Witness ==
    statusArg = <<"H","E","A","L","T","H","Y">> /\ statusOut = Green

RunEnded == rpc = "idle" /\ runs > 0

MetadataUnreachable(c) ==
    c.token = "fail" \/ \E f \in MetadataChecks : c[f] = "fail"

\* C8: a run in which the token request or a metadata request failed has
\* still written the snapshot file, with "unknown" in the identity fields
\* whose request failed.
C8_MetadataFailureStillEmits ==
    (RunEnded /\ MetadataUnreachable(chk)) =>
        /\ rlast = "emitted"
        /\ file.kind = "doc"
        /\ chk.id = "fail" => file.doc.instance.id = "unknown"
        /\ chk.az = "fail" => file.doc.instance.availability_zone = "unknown"
        /\ chk.type = "fail" => file.doc.instance.type = "unknown"
        /\ chk.region = "fail" => file.doc.instance.region = "unknown"
        /\ chk.ip = "fail" => file.doc.instance.private_ip = "unknown"

\* sub-checks of the last run that failed or gave an empty value
FailedChecks == FaultCount(chk) + (IF rmarker.kind = "iso" THEN 0 ELSE 1)

\* C9: the snapshot emitted by a run in which exactly one sub-check failed
\* or gave an empty value is valid JSON in which every key has a value.
C9_SingleFailureValidJson ==
    (RunEnded /\ rlast = "emitted" /\ FailedChecks = 1) =>
        /\ file.kind = "doc"
        /\ \A v \in BareFields(file.doc) : v.kind # "empty"
        /\ JSONValid(file.doc)

\* what the S3 Sync row shows for snapshot h
SyncText(h) == formatSyncTime(SyncSeconds(h))
SyncColor(h) == getSyncStatusColor(SyncSeconds(h))

\* C10: a run that found no marker file emits seconds_since_last_sync null
\* and sync status "unknown"; the dashboard shows a snapshot parsed from
\* such a document with the sync indicator "Unknown" in gray.
C10_AbsentMarkerShownUnknown ==
    /\ (RunEnded /\ rlast = "emitted" /\ rmarker = Absent) =>
          /\ file.kind = "doc"
          /\ file.doc.s3_sync.seconds_since_last_sync = ShStr("null")
          /\ file.doc.s3_sync.status = "unknown"
    /\ (/\ lastResolved.path = "detailed-ok"
        /\ lastResolved.body.doc.s3_sync.seconds_since_last_sync = ShStr("null"))
          => /\ SyncRowShown(healthData)
             /\ SyncText(healthData) = "Unknown"
             /\ SyncColor(healthData) = "#6c757d"

C10_Witness ==
    /\ rlast = "emitted"
    /\ rmarker = Absent
    /\ lastResolved.path = "detailed-ok"
    /\ lastResolved.body = file
    /\ healthData = lastResolved.stored
    /\ SyncText(healthData) = "Unknown"

\* the last run read a marker file whose content is no timestamp
MarkerUnparseable == rmarker.kind \in {"empty", "str"}

\* C11: a run that found a marker file whose content cannot be parsed as a
\* timestamp emits the snapshot, with sync status "unknown" and a null age,
\* as for an absent marker.
C11_UnparseableMarkerUnknown ==
    (RunEnded /\ MarkerUnparseable) =>
        /\ rlast = "emitted"
        /\ file.kind = "doc"
        /\ file.doc.s3_sync.status = "unknown"
        /\ file.doc.s3_sync.seconds_since_last_sync = ShStr("null")

\* the document the last run would have emitted had it found marker m, and
\* had its sub-checks returned c
Emitted(c, m) == Render(Sample(c, m, rtime), now)

\* C13: the snapshot a run emitted and the one it would have emitted on any
\* other marker file (another age, or none) have the same top-level status,
\* and the same instance, openresty and system blocks: only s3_sync can
\* differ.
C13_StatusIndependentOfMarker ==
    (RunEnded /\ rlast = "emitted") =>
        \A m \in MarkerInputs :
            /\ Emitted(chk, m).status = file.doc.status
            /\ Emitted(chk, m).instance = file.doc.instance
            /\ Emitted(chk, m).openresty = file.doc.openresty
            /\ Emitted(chk, m).system = file.doc.system

C13_Witness ==
    /\ RunEnded /\ rlast = "emitted"
    /\ rmarker = ShIso(Epoch0 - 700)
    /\ file.doc.status = S_healthy
    /\ file.doc.s3_sync.seconds_since_last_sync.n >= StaleLimit
    /\ Emitted(chk, Absent).s3_sync # file.doc.s3_sync
    /\ Emitted(chk, Absent).status = S_healthy

\* C14: a run that found the web server inactive emits a top-level status
\* that differs from the one it would have emitted had the server been
\* active and responding.
C14_StatusFollowsWebServer ==
    (RunEnded /\ rlast = "emitted" /\ chk.active = "inactive") =>
        file.doc.status # Emitted([chk EXCEPT !.active = "ok"], rmarker).status

\* C12: a GET /health-detailed that interleaves with a reporter run is
\* answered with a complete snapshot document: no fetchHealthData call, in
\* flight or returned, was handed the content of an empty file.
C12_ReaderSeesCompleteDocument ==
    /\ \A i \in 1..Len(inflight) : inflight[i].body.kind # "empty"
    /\ lastResolved.body.kind # "empty"

\* the clock values of the model, and the one a last_sync text denotes
ClockValues == {Epoch0 + k * TimeStep : k \in 0..((MaxTime - Epoch0) \div TimeStep)}
HasSyncTime(d) == \E t \in ClockValues : d.s3_sync.last_sync = Text(ShIso(t))
SyncTime(d) == CHOOSE t \in ClockValues : d.s3_sync.last_sync = Text(ShIso(t))

\* the call at position i read document d from /health-detailed in this step
ReadsDocument(i, d) ==
    /\ Len(inflight') = Len(inflight)
    /\ inflight[i].pc = "detailed"
    /\ inflight'[i].pc = "json"
    /\ inflight'[i].body = FileDoc(d)

\* C15: the sync age the dashboard classifies and displays for a document
\* is the time elapsed between the document's last_sync timestamp and the
\* moment the document is read (for a document the reporter wrote at the
\* clock value it sampled at).
C15_AgeDerivedAtReadTime ==
    [][\A i \in 1..Len(inflight) :
          (/\ file.kind = "doc"
           /\ ReadsDocument(i, file.doc)
           /\ JSONValid(file.doc)
           /\ file.doc.timestamp = Text(ShIso(rtime))
           /\ HasSyncTime(file.doc))
          => SyncSeconds(JSONParse(file.doc)) = Num(now - SyncTime(file.doc))]_vars

\* this step started a fetchHealthData call with the given trigger
Starts(trigger) ==
    /\ started' = started + 1
    /\ Len(inflight') = Len(inflight) + 1
    /\ inflight'[Len(inflight')].trigger = trigger
    /\ inflight'[Len(inflight')].pc = "detailed"

\* this step called fetch('/api/metrics') once
StartsMetrics ==
    /\ BagCardinality(metrics') = BagCardinality(metrics) + 1
    /\ CopiesIn(AwaitingFetch, metrics') = CopiesIn(AwaitingFetch, metrics) + 1

\* C16: a manual refresh adds exactly one to the refresh counter and in the
\* same step starts one health fetch and one metrics fetch, leaving the
\* polling timer as it is; no step decreases the refresh counter, and the
\* counter changes on manual refreshes only.
C16_ManualRefresh ==
    [][/\ refreshCount' >= refreshCount
       /\ Starts("manual") <=> refreshCount' # refreshCount
       /\ Starts("manual") =>
             /\ refreshCount' = refreshCount + 1
             /\ StartsMetrics
             /\ interval' = interval
             /\ interval.state = "armed"]_vars

C16_Witness ==
    /\ refreshCount = 1
    /\ interval.state = "armed"
    /\ \E i, j \in 1..Len(inflight) :
          inflight[i].trigger = "timer" /\ inflight[j].trigger = "manual"
    /\ BagIn(AwaitingFetch, metrics)
    /\ lambdaData.kind = "info"

\* C17: mounting starts one health fetch and arms the 30-second timer; a
\* timer tick happens only while the timer is armed and starts one health
\* fetch and nothing else (no metrics fetch, refresh counter and last-refresh
\* time unchanged); after unmount the timer is cleared and no fetch starts.
C17_PollingLoop ==
    [][/\ (mounted = "initial" /\ mounted' = "mounted") =>
             /\ Starts("mount")
             /\ started' = 1
             /\ interval' = [state |-> "armed", period |-> 30000]
       /\ Starts("timer") =>
             /\ mounted = "mounted"
             /\ interval = [state |-> "armed", period |-> 30000]
             /\ UNCHANGED <<metrics, refreshCount, lastRefresh, interval>>
       /\ mounted' = "unmounted" =>
             /\ interval'.state = "cleared"
             /\ started' = started
             /\ ~Starts("timer")]_vars

C17_Witness ==
    /\ mounted = "unmounted"
    /\ interval.state = "cleared"
    /\ lastResolved.trigger = "timer"
    /\ started < MaxFetches
    /\ refreshCount = 0
    /\ lastRefresh # now

\* a metrics chain ended in this step by a network failure or by a body
\* that is not JSON
MetricsChainFailed ==
    /\ mounted' = "mounted"
    /\ BagCardinality(metrics') = BagCardinality(metrics) - 1
    /\ lastMetrics' \in {"network-failure", "json-failure"}

\* C18: a metrics fetch that fails (network failure, or a body that is not
\* JSON) leaves the health snapshot, the loading flag, the refresh counter
\* and the stored metrics payload as they were, and after it the timer tick
\* and the manual refresh are still possible.
C18_MetricsFailureIgnored ==
    [][/\ MetricsChainFailed =>
             /\ UNCHANGED <<healthData, loading, refreshCount, lambdaData>>
             /\ UNCHANGED <<inflight, started, interval>>
       /\ (/\ lastMetrics \in {"network-failure", "json-failure"}
           /\ mounted = "mounted" /\ started < MaxFetches) =>
             /\ ENABLED TimerTick
             /\ (~loading /\ refreshCount < MaxRefresh) => ENABLED RefreshData]_vars

C18_Witness ==
    /\ lastMetrics = "json-failure"
    /\ lambdaData.kind = "info"
    /\ healthData.kind = "data" /\ healthData.status = S_healthy
    /\ refreshCount = 2
    /\ BagIn(AwaitingFetch, metrics)
    /\ Len(inflight) = 1

Invoked == lambdaOut # NoResult

GetRoutes == {P_health, P_health_detailed, P_api_metrics, P_api_applications}

\* a path of the form /api/applications/{id}/decision, id one non-empty
\* segment
DecisionPathWithId(p) ==
    /\ Len(p) > Len(P_applications_prefix) + Len(P_decision_suffix)
    /\ SubSeq(p, 1, Len(P_applications_prefix)) = P_applications_prefix
    /\ SubSeq(p, Len(p) - Len(P_decision_suffix) + 1, Len(p)) = P_decision_suffix
    /\ \A i \in (Len(P_applications_prefix) + 1)..(Len(p) - Len(P_decision_suffix)) :
          p[i] # "/"

\* a path that begins with /api/applications/ and ends with /decision
DecisionPathLoose(p) ==
    /\ Len(p) >= Len(P_applications_prefix)
    /\ SubSeq(p, 1, Len(P_applications_prefix)) = P_applications_prefix
    /\ SubSeq(p, Len(p) - Len(P_decision_suffix) + 1, Len(p)) = P_decision_suffix

HasServerInfo(body) ==
    /\ body.server_info.instance.id # ""
    /\ body.server_info.instance.type = "lambda"
    /\ body.server_info.instance.availability_zone
           \in {"us-east-1a", "us-east-1b", "us-east-1c"}
    /\ body.server_info.instance.region = "us-east-1"
    /\ body.server_info.timestamp = toISOString(now)

\* the routing table of C19, for a request whose path is a decision path
\* iff `decision`
RoutedAsListed(decision) ==
    LET m == lambdaReq.method
        p == lambdaReq.path
        r == lambdaOut
    IN  CASE m = "OPTIONS" -> r.statusCode = 204
          [] p \in GetRoutes /\ m = "GET" ->
                /\ r.statusCode = 200
                /\ p \in {P_health, P_health_detailed} => r.body.kind = "health"
                /\ p = P_api_metrics =>
                      r.body.kind = "metrics" /\ HasServerInfo(r.body)
                /\ p = P_api_applications =>
                      r.body.kind = "applications" /\ HasServerInfo(r.body)
          [] decision /\ m = "POST" ->
                \/ r.statusCode = 200 /\ r.body.kind = "decision"
                \/ r.statusCode = 400 /\ lambdaReq.body \in {"null", "invalid"}
          [] p \in GetRoutes \/ decision -> r.statusCode = 405
          [] OTHER ->
                /\ r.statusCode = 404
                /\ r.body.available_endpoints =
                      <<"GET /health", "GET /health-detailed", "GET /api/metrics",
                        "GET /api/applications",
                        "POST /api/applications/{id}/decision">>

C20_ReadmeEndpointsAnswer ==
    (/\ Invoked
     /\ ALBTarget(lambdaReq.path) = "lambda"
     /\ lambdaReq.method = "GET"
     /\ lambdaReq.path \in {P_api_health, P_api_health_detailed, P_api_status,
                            P_api_info, P_api_metrics})
        => lambdaOut.statusCode \in 200..299

\* C21: the marker changes only in a sync run that succeeded, to the time of
\* that run; a run that ended in a failure leaves it as it was; its
\* timestamp never decreases; and after every step it holds the time of the
\* most recent successful run (there is no marker before the first one).
C21_MarkerIsLastSuccess ==
    [][/\ marker' # marker =>
             /\ slog'.outcome = "synced"
             /\ slog'.at = now
             /\ marker' = ShIso(now)
       /\ (slog' # slog /\ slog'.outcome # "synced") => marker' = marker
       /\ (marker.kind = "iso" /\ marker'.kind = "iso") => marker'.n >= marker.n
       /\ marker.kind = "iso" => marker'.kind = "iso"
       /\ marker' = IF slog'.synced = 0 THEN Absent
                     ELSE ShIso(slog'.synced)]_vars

C21_Witness ==
    /\ slog.outcome = "sync-failed"
    /\ slog.at = Epoch0 + TimeStep
    /\ slog.synced = Epoch0
    /\ marker = ShIso(Epoch0)

\* C22: every response location / gives for the root document carries the
\* three headers X-Instance-ID, X-Availability-Zone and X-Region.
C22_RootCarriesIdentityHeaders ==
    root.pc = "served" =>
        {"X-Instance-ID", "X-Availability-Zone", "X-Region"}
            \subseteq DOMAIN root.response.headers

\* C23: the phrase for a sync age s is "Unknown" iff s is null or undefined;
\* otherwise "<s> seconds ago" below 60, "1 minute ago" from 60 to 119,
\* "<k> minutes ago" from 120 to 3599 with k whole minutes, "1 hour ago" from
\* 3600 to 7199 and "<k> hours ago" above with k whole hours; a zero or
\* negative age is green, and 45 is green with "45 seconds ago".
C23_PhraseByAge ==
    SyncRendered =>
        LET n == syncArg.n
            t == syncOut.text
        IN  /\ t = "Unknown" <=> syncArg.kind \in {"null", "undefined"}
            /\ syncArg.kind = "num" =>
                  /\ n < 60 => t = ToString(n) \o " seconds ago"
                  /\ (60 <= n /\ n < 120) => t = "1 minute ago"
                  /\ (120 <= n /\ n < 3600) =>
                        \E k \in 2..59 :
                            /\ 60 * k <= n /\ n < 60 * (k + 1)
                            /\ t = ToString(k) \o " minutes ago"
                  /\ (3600 <= n /\ n < 7200) => t = "1 hour ago"
                  /\ n >= 7200 =>
                        \E k \in 2..(n \div 3600) :
                            /\ 3600 * k <= n /\ n < 3600 * (k + 1)
                            /\ t = ToString(k) \o " hours ago"
                  /\ n <= 0 => syncOut.color = "#28a745"
            /\ syncArg = Num(45) =>
                  t = "45 seconds ago" /\ syncOut.color = "#28a745"

C23_Witness ==
    /\ syncArg = Num(45)
    /\ syncOut = [color |-> Green, text |-> "45 seconds ago"]

\* C24: a run that found the web server inactive (and reached the metadata
\* service) has emitted a snapshot whose openresty record has status
\* "inactive", responding false and uptime 0; a snapshot emitted by a run
\* that found it active has status "active" and responding true.
C24_InactiveServerReported ==
    /\ (RunEnded /\ chk.active = "inactive" /\ ~MetadataUnreachable(chk)) =>
          /\ rlast = "emitted"
          /\ file.kind = "doc"
          /\ file.doc.openresty.status = "inactive"
          /\ file.doc.openresty.responding = ShStr("false")
          /\ file.doc.openresty.uptime_seconds = ShNum(0)
          /\ JSONValid(file.doc) =>
                /\ JSONParse(file.doc).services.openresty.responding
                       = JsBool(FALSE)
                /\ JSONParse(file.doc).services.openresty.uptime_seconds
                       = Num(0)
    /\ (RunEnded /\ rlast = "emitted" /\ chk.active = "ok") =>
          /\ file.doc.openresty.status = "active"
          /\ file.doc.openresty.responding = ShStr("true")

C24_Witness ==
    /\ RunEnded
    /\ chk.active = "inactive"
    /\ rlast = "emitted"
    /\ file.doc.openresty.status = "inactive"
    /\ JSONValid(file.doc)
    /\ file.doc.status = S_healthy

\* C25: a POST to /api/applications/{id}/decision is answered 200 with
\* "Decision <decision> recorded for application <id>" only when the body is
\* a JSON object whose decision is "approve" or "reject", and 400 "Invalid
\* request body" for every other body.
C25_DecisionValidated ==
    (/\ Invoked
     /\ lambdaReq.method = "POST"
     /\ lambdaReq.path = P_decision_7) =>
        IF lambdaReq.body \in {"approve", "reject"}
        THEN /\ lambdaOut.statusCode = 200
             /\ lambdaOut.body.message =
                    "Decision " \o lambdaReq.body
                    \o " recorded for application 7"
        ELSE /\ lambdaOut.statusCode = 400
             /\ lambdaOut.body.error = "Invalid request body"

\* the identity reads of location /: the token request comes first; the
\* instance-id request is sent only after the token request returned 200
\* and carries the token; a failed step gives the placeholder header
RootTwoStep ==
    /\ \A k \in 1..Len(root.imds) :
          IF k = 1 THEN root.imds[k] = TokenRequest
          ELSE /\ root.got[1] = "200"
               /\ root.imds[k] = MetadataRequest("instance-id", ImdsToken)
    /\ root.pc = "served" =>
          /\ root.response.status = 200
          /\ root.got[1] # "200" =>
                /\ Len(root.imds) = 1
                /\ root.response.headers["X-Instance-ID"] = "token-error"
          /\ (root.got[1] = "200" /\ root.got[2] # "200") =>
                root.response.headers["X-Instance-ID"] = "metadata-error"
          /\ (root.got[1] = "200" /\ root.got[2] = "200") =>
                root.response.headers["X-Instance-ID"] = InstanceId

\* the identity field of document d that sub-check `check` fills
IdentityField(d, check) ==
    CASE check = "id" -> d.instance.id
      [] check = "az" -> d.instance.availability_zone
      [] check = "type" -> d.instance.type
      [] check = "region" -> d.instance.region
      [] OTHER -> d.instance.private_ip

\* the identity reads of a reporter run that has ended
ReporterTwoStep ==
    RunEnded =>
        LET q == ReporterRequests(chk) IN
        /\ q[1] = TokenRequest
        /\ chk.token # "ok" => Len(q) = 1
        /\ \A k \in 2..Len(q) : q[k].token = ImdsToken
        /\ rlast = "emitted"
        /\ \A k \in 1..5 :
              (chk.token # "ok" \/ chk[MetadataItems[k].check] # "ok") =>
                  IdentityField(file.doc, MetadataItems[k].check) = "unknown"

\* C26: in the reporter and in the handler of the root document, a metadata
\* request is sent only after the token request succeeded and carries the
\* token; when the token step fails no metadata request is sent; and a
\* failure of either step gives a placeholder identity value while the
\* operation completes.
C26_TwoStepFetch == RootTwoStep /\ ReporterTwoStep

\* C27 as stated: in every state of the dashboard, loading = true implies
\* that a health fetch is in flight; the manual refresh is enabled only
\* with loading = false, and the refresh counter changes only from such
\* states.
C27_LoadingMeansFetchingAlways ==
    [][/\ (mounted # "unmounted" /\ loading) => Len(inflight) > 0
       /\ ENABLED RefreshData => ~loading
       /\ refreshCount' # refreshCount => ~loading]_vars

\* C27 amended: in every state of the dashboard after its mount effect has
\* run, loading = true implies that a health fetch is in flight (the state
\* of the first render, before the effect, has loading = true and no fetch
\* yet); the manual refresh is enabled only with loading = false, and the
\* refresh counter changes only from such states.
C27_LoadingMeansFetching ==
    [][/\ (mounted = "mounted" /\ loading) => Len(inflight) > 0
       /\ (mounted' = "mounted" /\ loading') => Len(inflight') > 0
       /\ ENABLED RefreshData => ~loading
       /\ refreshCount' # refreshCount => ~loading]_vars

C27_Witness ==
    /\ mounted = "mounted"
    /\ loading
    /\ refreshCount = 2
    /\ Len(inflight) = 1
    /\ inflight[1].trigger = "manual"
    /\ healthData.kind = "data"

\* C28: after any sequence of requests, accepted decisions included, the
\* answer to GET /api/applications lists the same six applications with the
\* statuses they started with, and the answer to GET /api/metrics reports 3
\* applications pending review.
C28_HandlerKeepsNoState ==
    /\ (Invoked /\ lambdaReq.method = "GET"
            /\ lambdaReq.path = P_api_applications) =>
          /\ lambdaOut.statusCode = 200
          /\ Len(lambdaOut.body.data) = 6
          /\ [k \in 1..6 |-> lambdaOut.body.data[k].id] =
                <<"APP-2025-001234", "APP-2025-001235", "APP-2025-001236",
                  "APP-2025-001237", "APP-2025-001238", "APP-2025-001239">>
          /\ [k \in 1..6 |-> lambdaOut.body.data[k].status] =
                <<"pending", "pending", "approved", "rejected", "approved",
                  "pending">>
    /\ (Invoked /\ lambdaReq.method = "GET" /\ lambdaReq.path = P_api_metrics) =>
          /\ lambdaOut.statusCode = 200
          /\ lambdaOut.body.data.pending_review = 3

C28_Witness ==
    /\ decisionLog = [id |-> "APP-2025-001234", decision |-> "approve"]
    /\ lambdaReq.method = "GET"
    /\ lambdaReq.path = P_api_metrics
    /\ lambdaOut.body.data.pending_review = 3
    /\ apps[1].status = "pending"

\* a fetchHealthData call returned in this step
CallReturned ==
    /\ mounted' = "mounted"
    /\ Len(inflight') = Len(inflight) - 1

\* C29: a stored snapshot is never reset to null, whatever the later
\* fetches do; a fetch in which /health-detailed and /health both answered
\* with a non-success status leaves the stored snapshot as it was.
C29_SnapshotNeverCleared ==
    [][/\ healthData.kind = "data" => healthData'.kind = "data"
       /\ (CallReturned /\ lastResolved'.path = "simple-notok") =>
             /\ healthData' = healthData
             /\ lastResolved'.stored.kind = "null"]_vars

C29_Witness ==
    /\ lastResolved.path = "simple-notok"
    /\ lastResolved.trigger = "timer"
    /\ healthData.kind = "data"
    /\ healthData.status = S_healthy
    /\ SyncRowShown(healthData)
    /\ ~loading

\* a response body that JSON.parse refuses
Unparseable(body) == body.kind # "doc" \/ ~JSONValid(body.doc)

\* the calls waiting in response.json() on a body that cannot be parsed
UnparseableReads(q) ==
    Cardinality({i \in 1..Len(q) : q[i].pc = "json" /\ Unparseable(q[i].body)})

\* the calls that went on to the plaintext /health endpoint
FallbackReads(q) ==
    Cardinality({i \in 1..Len(q) : q[i].pc \in {"simple", "text"}})

\* C30: when response.json() settles on a 2xx /health-detailed response
\* whose body is not JSON, the call returns without requesting /health and
\* the stored snapshot becomes the network-failure snapshot (status "error",
\* every identity field "error"), whatever was stored before.
C30_BadJsonIsFailure ==
    [][UnparseableReads(inflight') < UnparseableReads(inflight) =>
         /\ CallReturned
         /\ lastResolved'.path = "json-rejected"
         /\ Unparseable(lastResolved'.body)
         /\ FallbackReads(inflight') = FallbackReads(inflight)
         /\ healthData' = ErrorSnapshot(now)
         /\ healthData'.status = S_error
         /\ IdentityAll(healthData', "error")
         /\ ~loading']_vars

C30_Witness ==
    /\ lastResolved.path = "json-rejected"
    /\ Unparseable(lastResolved.body)
    /\ lastResolved.trigger = "manual"
    /\ rpc = "truncated"
    /\ healthData = ErrorSnapshot(now)
    /\ FallbackReads(inflight) = 0

====
